---- MODULE Spec2Model ----
(***************************************************************************)
(* Table Dynamics Tracker (src/dynamics.py): the hand-history segmenter,   *)
(* the PokerStars hand parser, the per-player statistics and the engine    *)
(* that main() drives.                                                     *)
(*                                                                         *)
(* Lines are TLA+ strings, read with Len, SubSeq and \o, so the parser's   *)
(* prefix tests, substring tests and regular expressions are computed on   *)
(* the text itself.  Numbers: a stack or a pot is an integer count of      *)
(* hundredths (the inputs carry at most two decimals), a percentage an     *)
(* integer count of tenths (round(x, 1)), AF and BB/100 integer counts of  *)
(* hundredths (round(x, 2)).  A dict is a function, so the order of its    *)
(* keys is not modelled.  Hand.timestamp is not modelled: no statistic     *)
(* reads it and strptime's failure is swallowed (lines 99-103).  The CSV   *)
(* and JSON exports (lines 248-261) are not modelled.                      *)
(***************************************************************************)
EXTENDS Integers, Sequences, FiniteSets, TLC

VARIABLES
    input,     \* main: the raw lines of the hand-history file being read
    pos,       \* read_hands_from_file: number of lines consumed from f
    buf,       \* read_hands_from_file: buf
    lines,     \* main: the block the generator yielded last (loop variable lines)
    hand,      \* main: the result of parse_pokerstars_hand(lines)
    pc,        \* main: position in the loop of lines 278-282
    engine,    \* one DynamicsEngine per window size, all fed by the same loop
    processed, \* history: the hands handed to process_hand so far, in order
    probe,     \* the values returned by make_snapshot() calls made from outside
    segA,      \* segmentation runs: first log
    segB,      \* segmentation runs: second log
    segOut,    \* segmentation runs: the blocks yielded for A, for B and for A then B
    args_player, \* main: args.player, None without --player
    table      \* print_table: the rows printed, by player name

vars == <<input, pos, buf, lines, hand, pc, engine, processed, probe, segA, segB, segOut,
          args_player, table>>

\* ------------------------------------------------------------------ bounds

MaxBlocks == 3       \* hand blocks per hand-history file
MaxWindow == 2       \* largest --window-hands value
MaxBlockLines == 3   \* lines per block handed to the parser on its own
MaxSegLen == 3       \* lines per log handed to the segmenter on its own

\* --------------------------------------------------------- Python strings

None == <<>>

Digits == {"0", "1", "2", "3", "4", "5", "6", "7", "8", "9"}
DigitsOrDot == Digits \cup {"."}
Space == {" ", "\t", "\n", "\r"}

\* s[i-1:i], the empty string outside the text
Char(s, i) == IF i >= 1 /\ i <= Len(s) THEN SubSeq(s, i, i) ELSE ""

\* s[i-1:].startswith(p)
OccursAt(s, p, i) ==
    /\ i >= 1
    /\ i + Len(p) - 1 <= Len(s)
    /\ SubSeq(s, i, i + Len(p) - 1) = p

\* s.startswith(p)
StartsWith(s, p) == OccursAt(s, p, 1)

\* p in s
Contains(s, p) == \E i \in 1..(Len(s) - Len(p) + 1) : OccursAt(s, p, i)

\* s.find(p) + 1: the first place p occurs at, 0 when it does not
Find(s, p) ==
    IF Contains(s, p)
    THEN CHOOSE i \in 1..Len(s) :
            OccursAt(s, p, i) /\ \A j \in 1..(i - 1) : ~OccursAt(s, p, j)
    ELSE 0

\* length of the longest run of characters of class C starting at place i
\* (a greedy C* of a regular expression), 1 <= i <= Len(s) + 1
RunIn(s, i, C) ==
    CHOOSE n \in 0..(Len(s) - i + 1) :
        /\ \A k \in i..(i + n - 1) : Char(s, k) \in C
        /\ Char(s, i + n) \notin C

\* the same for the characters outside C (a greedy [^...]*)
RunNotIn(s, i, C) ==
    CHOOSE n \in 0..(Len(s) - i + 1) :
        /\ \A k \in i..(i + n - 1) : Char(s, k) \notin C
        /\ (i + n > Len(s) \/ Char(s, i + n) \in C)

\* s.strip()
Strip(s) ==
    LET a == RunIn(s, 1, Space)
        rest == SubSeq(s, a + 1, Len(s))
        b == CHOOSE n \in 0..Len(rest) :
                /\ \A k \in (Len(rest) - n + 1)..Len(rest) : Char(rest, k) \in Space
                /\ Char(rest, Len(rest) - n) \notin Space
    IN  SubSeq(rest, 1, Len(rest) - b)

DigitVal(c) == CHOOSE n \in 0..9 : Char("0123456789", n + 1) = c

\* the value of a string of decimal digits, 0 for the empty string
RECURSIVE DecValue(_)
DecValue(s) ==
    IF Len(s) = 0 THEN 0
    ELSE 10 * DecValue(SubSeq(s, 1, Len(s) - 1)) + DigitVal(Char(s, Len(s)))

\* float(t) for a text t of digits and dots, in hundredths; None when float()
\* raises ValueError (no digit, or more than one dot)
ParseFloat(t) ==
    LET dot == Find(t, ".")
        whole == IF dot = 0 THEN t ELSE SubSeq(t, 1, dot - 1)
        frac == IF dot = 0 THEN "" ELSE SubSeq(t, dot + 1, Len(t))
    IN  IF Contains(frac, ".") \/ Len(whole) + Len(frac) = 0
        THEN None
        ELSE <<100 * DecValue(whole) + DecValue(SubSeq(frac \o "00", 1, 2))>>

\* ------------------------------------------------------------ the parser

HandMarker == "PokerStars Hand"

\* re.fullmatch in place of re.match: nothing may follow the colon
MatchHandId_fullmatch(line) ==
    LET prefix == "PokerStars Hand #"
        i == Len(prefix) + 1
    IN  IF ~StartsWith(line, prefix) THEN None
        ELSE LET n == RunIn(line, i, Digits)
             IN  IF n >= 1 /\ Char(line, i + n) = ":" /\ Len(line) = i + n
                 THEN <<SubSeq(line, i, i + n - 1)>>
                 ELSE None

\* re.match(r"PokerStars Hand #(\d+):", line): <<group 1>>, or None
MatchHandId(line) ==
    LET prefix == "PokerStars Hand #"
        i == Len(prefix) + 1
    IN  IF ~StartsWith(line, prefix) THEN None
        ELSE LET n == RunIn(line, i, Digits)
             IN  IF n >= 1 /\ Char(line, i + n) = ":"
                 THEN <<SubSeq(line, i, i + n - 1)>>
                 ELSE None

\* re.match(r"Seat \d+: ([^\(]+) \(\s*([\d\.]+)\s+in chips\)", line):
\* <<group 1, group 2>>, or None.  [^\(]+ runs to the first "(" and gives back one
\* character, which has to be the space before it.
MatchSeat(line) ==
    LET i1 == Len("Seat ") + 1
        n1 == RunIn(line, i1, Digits)
        i2 == i1 + n1 + Len(": ")
        n2 == RunNotIn(line, i2, {"("})
        i3 == i2 + n2 + 1
        n3 == RunIn(line, i3, Space)
        i4 == i3 + n3
        n4 == RunIn(line, i4, DigitsOrDot)
        i5 == i4 + n4
        n5 == RunIn(line, i5, Space)
    IN  IF /\ StartsWith(line, "Seat ")
           /\ n1 >= 1
           /\ OccursAt(line, ": ", i1 + n1)
           /\ n2 >= 2
           /\ OccursAt(line, " (", i2 + n2 - 1)
           /\ n4 >= 1
           /\ n5 >= 1
           /\ OccursAt(line, "in chips)", i5 + n5)
        THEN <<SubSeq(line, i2, i2 + n2 - 2), SubSeq(line, i4, i4 + n4 - 1)>>
        ELSE None

\* re.match(r"(.+?) collected", line): <<group 1>>, or None (the shortest
\* non-empty prefix that " collected" follows)
MatchCollected(line) ==
    LET at(k) == k >= 1 /\ OccursAt(line, " collected", k + 1)
    IN  IF \E k \in 1..Len(line) : at(k)
        THEN LET k == CHOOSE k \in 1..Len(line) : at(k) /\ \A j \in 1..(k - 1) : ~at(j)
             IN  <<SubSeq(line, 1, k)>>
        ELSE None

\* re.search(r"Total pot ([\d\.]+)", line): <<group 1>>, or None
MatchTotalPot(line) ==
    LET key == "Total pot "
        at(k) == OccursAt(line, key, k) /\ RunIn(line, k + Len(key), DigitsOrDot) >= 1
    IN  IF \E k \in 1..Len(line) : at(k)
        THEN LET k == CHOOSE k \in 1..Len(line) : at(k) /\ \A j \in 1..(k - 1) : ~at(j)
                 i == k + Len(key)
             IN  <<SubSeq(line, i, i + RunIn(line, i, DigitsOrDot) - 1)>>
        ELSE None

Verbs == {"folds", "calls", "bets", "raises", "checks"}

\* the condition of line 111
IsActionLine(line) == Contains(line, ":") /\ \E v \in Verbs : Contains(line, v)

ActionOf_block_level(block, line) ==
    LET k == Find(line, ":")
        player == Strip(SubSeq(line, 1, k - 1))
        action == Strip(SubSeq(line, k + 1, Len(line)))
        street == IF \E i \in 1..Len(block) : Contains(block[i], "*** FLOP")
                  THEN "FLOP"
                  ELSE "PREFLOP"
    IN  <<street, player, action>>

\* lines 112-120: the (street, player, action) triple of an action line of block
ActionOf(block, line) ==
    LET k == Find(line, ":")
        player == Strip(SubSeq(line, 1, k - 1))
        action == Strip(SubSeq(line, k + 1, Len(line)))
        street == IF \E i \in 1..Len(block) : Contains(block[i], "*** FLOP")
                  THEN IF Contains(line, "*** FLOP") THEN "FLOP" ELSE "PREFLOP"
                  ELSE "PREFLOP"
    IN  <<street, player, action>>

\* key -> value added to a dict
Put(d, k, v) == [n \in DOMAIN d \cup {k} |-> IF n = k THEN v ELSE d[n]]

EmptyDict == [n \in {} |-> 0]

ParseLine_first_winner(block, acc, line) ==
    LET seat == IF StartsWith(line, "Seat ") THEN MatchSeat(line) ELSE None
        chips == IF seat = None THEN <<0>> ELSE ParseFloat(seat[2])
        won == IF Contains(line, "collected") /\ Contains(line, "from pot")
               THEN MatchCollected(line) ELSE None
        pot == IF Contains(line, "Total pot") THEN MatchTotalPot(line) ELSE None
        size == IF pot = None THEN <<0>> ELSE ParseFloat(pot[1])
    IN  IF acc.raised \/ chips = None \/ size = None
        THEN [acc EXCEPT !.raised = TRUE]
        ELSE [players |-> IF seat = None THEN acc.players
                          ELSE Put(acc.players, Strip(seat[1]), chips[1]),
              actions |-> IF IsActionLine(line)
                          THEN Append(acc.actions, ActionOf(block, line))
                          ELSE acc.actions,
              winner  |-> IF won = None \/ acc.winner # None THEN acc.winner
                          ELSE <<Strip(won[1])>>,
              potsize |-> IF pot = None THEN acc.potsize ELSE size[1],
              raised  |-> FALSE]

\* the body of the loop of lines 98-130 for one line: acc holds the locals
\* players, actions, winner, potsize, and raised once float() raised ValueError
ParseLine(block, acc, line) ==
    LET seat == IF StartsWith(line, "Seat ") THEN MatchSeat(line) ELSE None
        chips == IF seat = None THEN <<0>> ELSE ParseFloat(seat[2])
        won == IF Contains(line, "collected") /\ Contains(line, "from pot")
               THEN MatchCollected(line) ELSE None
        pot == IF Contains(line, "Total pot") THEN MatchTotalPot(line) ELSE None
        size == IF pot = None THEN <<0>> ELSE ParseFloat(pot[1])
    IN  IF acc.raised \/ chips = None \/ size = None
        THEN [acc EXCEPT !.raised = TRUE]
        ELSE [players |-> IF seat = None THEN acc.players
                          ELSE Put(acc.players, Strip(seat[1]), chips[1]),
              actions |-> IF IsActionLine(line)
                          THEN Append(acc.actions, ActionOf(block, line))
                          ELSE acc.actions,
              winner  |-> IF won = None THEN acc.winner ELSE <<Strip(won[1])>>,
              potsize |-> IF pot = None THEN acc.potsize ELSE size[1],
              raised  |-> FALSE]

RECURSIVE ParseLines(_, _, _)
ParseLines(block, acc, i) ==
    IF i > Len(block) THEN acc
    ELSE ParseLines(block, ParseLine(block, acc, block[i]), i + 1)

NoHand == [kind |-> "None"]
ValueError == [kind |-> "ValueError"]

\* parse_pokerstars_hand discarding on a missing id only (line 131 without
\* "or not players")
parse_pokerstars_hand_id_only(block) ==
    LET hand_id == MatchHandId(block[1])
        acc == ParseLines(block,
                          [players |-> EmptyDict, actions |-> <<>>, winner |-> None,
                           potsize |-> 0, raised |-> FALSE], 1)
    IN  IF acc.raised THEN ValueError
        ELSE IF hand_id = None THEN NoHand
        ELSE [kind |-> "Hand", hand_id |-> hand_id[1], players |-> acc.players,
              actions |-> acc.actions, winner |-> acc.winner, potsize |-> acc.potsize]

\* parse_pokerstars_hand(lines): a Hand, NoHand for the discard (return None),
\* ValueError when float() raised on a stack or a pot
parse_pokerstars_hand(block) ==
    LET hand_id == MatchHandId(block[1])
        acc == ParseLines(block,
                          [players |-> EmptyDict, actions |-> <<>>, winner |-> None,
                           potsize |-> 0, raised |-> FALSE], 1)
    IN  IF acc.raised THEN ValueError
        ELSE IF hand_id = None \/ DOMAIN acc.players = {} THEN NoHand
        ELSE [kind |-> "Hand", hand_id |-> hand_id[1], players |-> acc.players,
              actions |-> acc.actions, winner |-> acc.winner, potsize |-> acc.potsize]

\* --------------------------------------------------------- the statistics

\* bb_value, the default of update_from_hand's parameter (process_hand passes none)
BbValue == 1

\* PlayerStats() with ps.name = name set (lines 142-154 and 221)
NewPlayerStats(name) ==
    [name |-> name, hands |-> 0, vpip |-> 0, pfr |-> 0, _3bet_opps |-> 0, _3bet |-> 0,
     af_acts |-> [bet |-> 0, raise |-> 0, call |-> 0],
     showdown |-> 0, won_showdown |-> 0, bb_won |-> 0]

Bump(b) == IF b THEN 1 ELSE 0

UpdateFromAction_vpip_any_street(ps, a) ==
    LET street == a[1]
        pl == a[2]
        act == a[3]
    IN  IF pl # ps.name THEN ps
        ELSE [ps EXCEPT
                !.vpip = @ + Bump(Contains(act, "calls") \/ Contains(act, "raises")
                                      \/ Contains(act, "bets")),
                !.pfr = @ + Bump(Contains(act, "raises") /\ street = "PREFLOP"),
                !._3bet = @ + Bump(Contains(act, "raises") /\ street = "PREFLOP"),
                !.af_acts.call = @ + Bump(Contains(act, "calls") /\ street # "PREFLOP"),
                !.af_acts.bet = @ + Bump(Contains(act, "bets")),
                !.af_acts.raise = @ + Bump(Contains(act, "raises") /\ street # "PREFLOP")]

UpdateFromAction_bet_postflop_only(ps, a) ==
    LET street == a[1]
        pl == a[2]
        act == a[3]
    IN  IF pl # ps.name THEN ps
        ELSE [ps EXCEPT
                !.vpip = @ + Bump((Contains(act, "calls") \/ Contains(act, "raises")
                                      \/ Contains(act, "bets")) /\ street = "PREFLOP"),
                !.pfr = @ + Bump(Contains(act, "raises") /\ street = "PREFLOP"),
                !._3bet = @ + Bump(Contains(act, "raises") /\ street = "PREFLOP"),
                !.af_acts.call = @ + Bump(Contains(act, "calls") /\ street # "PREFLOP"),
                !.af_acts.bet = @ + Bump(Contains(act, "bets") /\ street # "PREFLOP"),
                !.af_acts.raise = @ + Bump(Contains(act, "raises") /\ street # "PREFLOP")]

UpdateFromAction_call_any_street(ps, a) ==
    LET street == a[1]
        pl == a[2]
        act == a[3]
    IN  IF pl # ps.name THEN ps
        ELSE [ps EXCEPT
                !.vpip = @ + Bump((Contains(act, "calls") \/ Contains(act, "raises")
                                      \/ Contains(act, "bets")) /\ street = "PREFLOP"),
                !.pfr = @ + Bump(Contains(act, "raises") /\ street = "PREFLOP"),
                !._3bet = @ + Bump(Contains(act, "raises") /\ street = "PREFLOP"),
                !.af_acts.call = @ + Bump(Contains(act, "calls")),
                !.af_acts.bet = @ + Bump(Contains(act, "bets")),
                !.af_acts.raise = @ + Bump(Contains(act, "raises") /\ street # "PREFLOP")]

\* the body of the loop of lines 162-177 for one action of the hand
UpdateFromAction(ps, a) ==
    LET street == a[1]
        pl == a[2]
        act == a[3]
    IN  IF pl # ps.name THEN ps
        ELSE [ps EXCEPT
                !.vpip = @ + Bump((Contains(act, "calls") \/ Contains(act, "raises")
                                      \/ Contains(act, "bets")) /\ street = "PREFLOP"),
                !.pfr = @ + Bump(Contains(act, "raises") /\ street = "PREFLOP"),
                !._3bet = @ + Bump(Contains(act, "raises") /\ street = "PREFLOP"),
                !.af_acts.call = @ + Bump(Contains(act, "calls") /\ street # "PREFLOP"),
                !.af_acts.bet = @ + Bump(Contains(act, "bets")),
                !.af_acts.raise = @ + Bump(Contains(act, "raises") /\ street # "PREFLOP")]

RECURSIVE UpdateFromActions(_, _, _)
UpdateFromActions(ps, actions, i) ==
    IF i > Len(actions) THEN ps
    ELSE UpdateFromActions(UpdateFromAction(ps, actions[i]), actions, i + 1)

update_from_hand_showdown_seen(ps, h) ==
    IF ps.name \notin DOMAIN h.players THEN ps
    ELSE LET counted == UpdateFromActions([ps EXCEPT !.hands = @ + 1], h.actions, 1)
             wins == h.winner = <<ps.name>>
         IN  [counted EXCEPT
                !.won_showdown = @ + Bump(wins),
                !.bb_won = @ + (IF wins THEN h.potsize \div BbValue ELSE 0),
                !.showdown = @ + Bump(h.winner # None)]

\* PlayerStats.update_from_hand(hand), the new value of self
update_from_hand(ps, h) ==
    IF ps.name \notin DOMAIN h.players THEN ps
    ELSE LET counted == UpdateFromActions([ps EXCEPT !.hands = @ + 1], h.actions, 1)
             wins == h.winner = <<ps.name>>
         IN  [counted EXCEPT
                !.won_showdown = @ + Bump(wins),
                !.bb_won = @ + (IF wins THEN h.potsize \div BbValue ELSE 0),
                !.showdown = @ + Bump(wins)]

\* round(num / den, ndigits) as the integer num / den rounded half to even,
\* num already scaled by 10^ndigits
RoundDiv(num, den) ==
    LET q == num \div den
        r == num % den
    IN  IF 2 * r < den THEN q
        ELSE IF 2 * r > den THEN q + 1
        ELSE IF q % 2 = 0 THEN q ELSE q + 1

Max(a, b) == IF a >= b THEN a ELSE b

\* snapshot() dividing by max(1, calls) in place of the placeholder
snapshot_no_placeholder(ps) ==
    LET af_calls == ps.af_acts.call
        af_bets == ps.af_acts.bet
        af_raises == ps.af_acts.raise
    IN  [hands |-> ps.hands,
         VPIP |-> IF ps.hands # 0 THEN RoundDiv(1000 * ps.vpip, ps.hands) ELSE 0,
         PFR |-> IF ps.hands # 0 THEN RoundDiv(1000 * ps.pfr, ps.hands) ELSE 0,
         AF |-> <<"ratio", RoundDiv(100 * (af_bets + af_raises), Max(1, af_calls))>>,
         AFq |-> RoundDiv(1000 * (af_bets + af_raises),
                          Max(1, af_bets + af_raises + af_calls)),
         WSD |-> IF ps.hands # 0 THEN RoundDiv(1000 * ps.won_showdown, ps.hands) ELSE 0,
         BB100 |-> IF ps.hands # 0 THEN RoundDiv(100 * ps.bb_won, ps.hands) ELSE 0]

snapshot_bb_per_hand(ps) ==
    LET af_calls == ps.af_acts.call
        af_bets == ps.af_acts.bet
        af_raises == ps.af_acts.raise
    IN  [hands |-> ps.hands,
         VPIP |-> IF ps.hands # 0 THEN RoundDiv(1000 * ps.vpip, ps.hands) ELSE 0,
         PFR |-> IF ps.hands # 0 THEN RoundDiv(1000 * ps.pfr, ps.hands) ELSE 0,
         AF |-> IF af_calls > 0
                THEN <<"ratio", RoundDiv(100 * (af_bets + af_raises), af_calls)>>
                ELSE <<"-">>,
         AFq |-> RoundDiv(1000 * (af_bets + af_raises),
                          Max(1, af_bets + af_raises + af_calls)),
         WSD |-> IF ps.hands # 0 THEN RoundDiv(1000 * ps.won_showdown, ps.hands) ELSE 0,
         BB100 |-> IF ps.hands # 0 THEN RoundDiv(ps.bb_won, ps.hands) ELSE 0]

\* PlayerStats.snapshot(): percentages in tenths, AF and BB/100 in hundredths;
\* the AF field is <<"-">> or <<"ratio", value>>
snapshot(ps) ==
    LET af_calls == ps.af_acts.call
        af_bets == ps.af_acts.bet
        af_raises == ps.af_acts.raise
    IN  [hands |-> ps.hands,
         VPIP |-> IF ps.hands # 0 THEN RoundDiv(1000 * ps.vpip, ps.hands) ELSE 0,
         PFR |-> IF ps.hands # 0 THEN RoundDiv(1000 * ps.pfr, ps.hands) ELSE 0,
         AF |-> IF af_calls > 0
                THEN <<"ratio", RoundDiv(100 * (af_bets + af_raises), af_calls)>>
                ELSE <<"-">>,
         AFq |-> RoundDiv(1000 * (af_bets + af_raises),
                          Max(1, af_bets + af_raises + af_calls)),
         WSD |-> IF ps.hands # 0 THEN RoundDiv(1000 * ps.won_showdown, ps.hands) ELSE 0,
         BB100 |-> IF ps.hands # 0 THEN RoundDiv(100 * ps.bb_won, ps.hands) ELSE 0]

\* ------------------------------------------------------------- the engine

\* DynamicsEngine(window_hands): hands is the deque, maxlen = window_hands
NewEngine(window_hands) ==
    [window_hands |-> window_hands, hands |-> <<>>, players |-> EmptyDict,
     snapshots |-> <<>>]

\* list.append(x): nothing is evicted
DequeAppend_unbounded(d, n, x) == Append(d, x)

\* deque(maxlen = n).append(x)
DequeAppend(d, n, x) ==
    IF n = 0 THEN d
    ELSE IF Len(d) >= n THEN Append(Tail(d), x)
    ELSE Append(d, x)

\* DynamicsEngine.make_snapshot()
make_snapshot(e) == [n \in DOMAIN e.players |-> snapshot(e.players[n])]

\* every known player updated, without the check of lines 158-159
UpdatePlayers_all_known(players, h) ==
    LET unguarded(ps) ==
            LET counted == UpdateFromActions([ps EXCEPT !.hands = @ + 1], h.actions, 1)
                wins == h.winner = <<ps.name>>
            IN  [counted EXCEPT
                    !.won_showdown = @ + Bump(wins),
                    !.bb_won = @ + (IF wins THEN h.potsize \div BbValue ELSE 0),
                    !.showdown = @ + Bump(wins)]
    IN  [n \in DOMAIN players \cup DOMAIN h.players |->
            unguarded(IF n \in DOMAIN players
                      THEN [players[n] EXCEPT !.name = n]
                      ELSE NewPlayerStats(n))]

\* the player map rebuilt from the players of the current hand only
UpdatePlayers_current_only(players, h) ==
    [n \in DOMAIN h.players |->
        update_from_hand(IF n \in DOMAIN players
                         THEN [players[n] EXCEPT !.name = n]
                         ELSE NewPlayerStats(n), h)]

UpdatePlayers_touch_winner(players, h) ==
    [n \in DOMAIN players \cup DOMAIN h.players
           \cup (IF h.winner = None THEN {} ELSE {h.winner[1]}) |->
        IF n \in DOMAIN h.players
        THEN update_from_hand(IF n \in DOMAIN players
                              THEN [players[n] EXCEPT !.name = n]
                              ELSE NewPlayerStats(n), h)
        ELSE IF n \in DOMAIN players THEN players[n] ELSE NewPlayerStats(n)]

\* lines 218-222: every player of the hand is created when missing, then updated
UpdatePlayers(players, h) ==
    [n \in DOMAIN players \cup DOMAIN h.players |->
        IF n \in DOMAIN h.players
        THEN update_from_hand(IF n \in DOMAIN players
                              THEN [players[n] EXCEPT !.name = n]
                              ELSE NewPlayerStats(n), h)
        ELSE players[n]]

RECURSIVE ReplayPlayers(_, _, _)
ReplayPlayers(players, hs, i) ==
    IF i > Len(hs) THEN players
    ELSE ReplayPlayers(UpdatePlayers(players, hs[i]), hs, i + 1)

\* process_hand with a genuine sliding window: the accumulators are recomputed
\* from the hands still in the buffer
process_hand_windowed(e, h) ==
    LET kept == DequeAppend(e.hands, e.window_hands, h)
        updated == [e EXCEPT !.hands = kept,
                             !.players = ReplayPlayers(EmptyDict, kept, 1)]
    IN  [updated EXCEPT !.snapshots = Append(@, <<h.hand_id, make_snapshot(updated)>>)]

\* process_hand keeping one snapshot dict and storing it again on every call, so
\* that the entries stored earlier show the latest metrics
process_hand_shared_snapshot(e, h) ==
    LET updated == [e EXCEPT !.hands = DequeAppend(@, e.window_hands, h),
                             !.players = UpdatePlayers(@, h)]
        snap == make_snapshot(updated)
    IN  [updated EXCEPT !.snapshots =
            Append([i \in 1..Len(@) |-> <<@[i][1], snap>>], <<h.hand_id, snap>>)]

\* DynamicsEngine.process_hand(hand), the new value of self
process_hand(e, h) ==
    LET updated == [e EXCEPT !.hands = DequeAppend(@, e.window_hands, h),
                             !.players = UpdatePlayers(@, h)]
    IN  [updated EXCEPT !.snapshots = Append(@, <<h.hand_id, make_snapshot(updated)>>)]

\* ---------------------------------------------------------- the segmenter

\* the loop body without "if buf:": a marker always yields
SegStep_no_buf_check(b, raw) ==
    LET yields == StartsWith(raw, HandMarker)
    IN  [yielded |-> IF yields THEN <<b>> ELSE <<>>,
         buf |-> Append(IF yields THEN <<>> ELSE b, Strip(raw))]

SegStep_strip_before_test(b, raw) ==
    LET yields == StartsWith(Strip(raw), HandMarker) /\ b # <<>>
    IN  [yielded |-> IF yields THEN <<b>> ELSE <<>>,
         buf |-> Append(IF yields THEN <<>> ELSE b, Strip(raw))]

\* the body of the loop of lines 48-53 for one raw line: the block yielded, if
\* any, and the new buf
SegStep(b, raw) ==
    LET yields == StartsWith(raw, HandMarker) /\ b # <<>>
    IN  [yielded |-> IF yields THEN <<b>> ELSE <<>>,
         buf |-> Append(IF yields THEN <<>> ELSE b, Strip(raw))]

RECURSIVE SegFrom(_, _, _)
SegFrom(raws, b, i) ==
    IF i > Len(raws) THEN (IF b # <<>> THEN <<b>> ELSE <<>>)
    ELSE LET s == SegStep(b, raws[i])
         IN  s.yielded \o SegFrom(raws, s.buf, i + 1)

\* list(read_hands_from_file(path)) for a file holding the raw lines raws
read_hands_from_file(raws) == SegFrom(raws, <<>>, 1)

\* ------------------------------------------------------------- the inputs

HeaderLine(id) == "PokerStars Hand #" \o id \o ":"
SeatLine(no, name, chips) == "Seat " \o no \o ": " \o name \o " (" \o chips \o " in chips)"
CollectedLine(name, amount) == name \o " collected " \o amount \o " from pot"
TotalPotLine(amount) == "Total pot " \o amount

\* the hand blocks a hand-history file is made of
BlockPool ==
    << \* Scenario A: one raise, won by the raiser
       << HeaderLine("123"), SeatLine("1", "Alice", "100.00"), "Alice: raises to 3",
          CollectedLine("Alice", "4.50"), TotalPotLine("4.50") >>,
       \* two players, a flop header on its own line, nobody collects
       << HeaderLine("124"), SeatLine("1", "Alice", "100.00"), SeatLine("2", "Bob", "50"),
          "Bob: calls 2", "Alice: checks", "*** FLOP *** [2c 3d 4h]", "Bob: bets 4" >>,
       \* a flop header on its own line and actions that carry the flop literal
       << HeaderLine("125"), "  Seat 2: Bob (50 in chips)  ", "*** FLOP *** [2c 3d 4h]",
          "Bob: bets 1", "Bob: calls 2 *** FLOP", "Bob: raises 4 *** FLOP" >>,
       \* a marker line without an id
       << "PokerStars Hand 127", SeatLine("1", "Alice", "100.00"), "Alice: raises to 3" >>,
       \* Scenario B: no seat line
       << HeaderLine("128"), "Alice: raises to 3", CollectedLine("Alice", "4.50") >>,
       \* a player who acts and collects without a seat
       << HeaderLine("129"), SeatLine("2", "Bob", "50"), "Bob: folds", "Alice: raises to 3",
          CollectedLine("Alice", "2"), TotalPotLine("2") >>,
       \* a stack float() rejects
       << HeaderLine("130"), SeatLine("1", "Alice", "1.2.3") >>,
       \* the id of Scenario A again, two raises of one player
       << HeaderLine("123"), SeatLine("2", "Bob", "50"), "Bob: raises to 2",
          "Bob: raises to 6", CollectedLine("Bob", "8"), TotalPotLine("8 | Rake 0") >>,
       \* a split pot and a call on the flop
       << HeaderLine("131"), SeatLine("1", "Alice", "100.00"), SeatLine("2", "Bob", "50"),
          "Bob: calls 1 *** FLOP", CollectedLine("Alice", "1"), CollectedLine("Bob", "1"),
          TotalPotLine("2") >> >>

RECURSIVE Flatten(_)
Flatten(blocks) == IF blocks = <<>> THEN <<>> ELSE Head(blocks) \o Flatten(Tail(blocks))

\* the raw lines iterating over a file gives: each line with its terminator
FileLines(text) == [i \in 1..Len(text) |-> text[i] \o "\n"]

\* the files: up to MaxBlocks blocks of the pool, one after the other
Logs ==
    UNION { { FileLines(Flatten([i \in 1..k |-> BlockPool[c[i]]])) :
                c \in [1..k -> 1..Len(BlockPool)] } : k \in 0..MaxBlocks }

WindowSizes == 0..MaxWindow

\* ------------------------------------------------------------------- main

Idle == [A |-> <<>>, B |-> <<>>, AB |-> <<>>]

Init ==
    /\ input \in Logs
    /\ pos = 0
    /\ buf = <<>>
    /\ lines = <<>>
    /\ hand = NoHand
    /\ pc = "read"
    /\ engine = [n \in WindowSizes |-> NewEngine(n)]
    /\ processed = <<>>
    /\ probe = <<>>
    /\ segA = <<>>
    /\ segB = <<>>
    /\ segOut = Idle
    /\ args_player = None
    /\ table = EmptyDict

\* one turn of the loop of lines 48-53: the next line of f is read; when it is a
\* marker and buf holds a block, the block is yielded to main and the line
\* starts the next one
ReadLine ==
    /\ pc \in {"read", "processed"}
    /\ pos < Len(input)
    /\ LET s == SegStep(buf, input[pos + 1])
       IN  /\ buf' = s.buf
           /\ lines' = IF s.yielded # <<>> THEN s.yielded[1] ELSE lines
           /\ pc' = IF s.yielded # <<>> THEN "yielded" ELSE "read"
    /\ pos' = pos + 1
    /\ probe' = <<>>
    /\ UNCHANGED <<input, hand, engine, processed, segA, segB, segOut,
                   args_player, table>>

\* lines 54-55: f is exhausted; the block left in buf is yielded, and the
\* generator ends (buf is emptied here to record that the flush happened)
EndOfFile ==
    /\ pc \in {"read", "processed"}
    /\ pos = Len(input)
    /\ buf' = <<>>
    /\ lines' = IF buf # <<>> THEN buf ELSE lines
    /\ pc' = IF buf # <<>> THEN "yielded" ELSE "done"
    /\ probe' = <<>>
    /\ UNCHANGED <<input, pos, hand, engine, processed, segA, segB, segOut,
                   args_player, table>>

\* line 280 when parse_pokerstars_hand returns: hand is its result
ParseReturns(parsed) ==
    /\ parsed # ValueError
    /\ hand' = parsed
    /\ pc' = "parsed"
    /\ UNCHANGED <<input, pos, buf, lines, engine, processed, probe, segA, segB, segOut,
                   args_player, table>>

\* line 280 when float() raises: nothing catches the ValueError and main ends
ParseRaises(parsed) ==
    /\ parsed = ValueError
    /\ pc' = "crashed"
    /\ UNCHANGED <<input, pos, buf, lines, hand, engine, processed, probe, segA, segB, segOut,
                   args_player, table>>

\* line 280: hand = parse_pokerstars_hand(lines)
Parse ==
    /\ pc = "yielded"
    /\ \E parsed \in {parse_pokerstars_hand(lines)} :
          \/ ParseReturns(parsed)
          \/ ParseRaises(parsed)

\* lines 281-282 with a Hand: engine.process_hand(hand)
ProcessHand ==
    /\ pc = "parsed"
    /\ hand # NoHand
    /\ engine' = [n \in WindowSizes |-> process_hand(engine[n], hand)]
    /\ processed' = Append(processed, hand)
    /\ pc' = "processed"
    /\ UNCHANGED <<input, pos, buf, lines, hand, probe, segA, segB, segOut,
                   args_player, table>>

\* lines 281-282 with None: the block is dropped
Discard ==
    /\ pc = "parsed"
    /\ hand = NoHand
    /\ pc' = "read"
    /\ UNCHANGED <<input, pos, buf, lines, hand, engine, processed, probe, segA, segB, segOut,
                   args_player, table>>

\* a snapshot that starts the accumulators afresh once they are read
MakeSnapshot_rolling ==
    /\ pc = "processed" \/ (pc = "read" /\ pos = 0)
    /\ Len(probe) < 2
    /\ \E n \in WindowSizes :
          /\ probe' = Append(probe, make_snapshot(engine[n]))
          /\ engine' = [engine EXCEPT ![n].players =
                            [p \in DOMAIN @ |-> NewPlayerStats(p)]]
    /\ UNCHANGED <<input, pos, buf, lines, hand, pc, processed, segA, segB, segOut,
                   args_player, table>>

\* engine.make_snapshot() called between two turns of main's loop, on the fresh
\* engine or once process_hand has returned; probe keeps the values returned by
\* the consecutive calls made there
MakeSnapshot ==
    /\ pc = "processed" \/ (pc = "read" /\ pos = 0)
    /\ Len(probe) < 2
    /\ \E n \in WindowSizes : probe' = Append(probe, make_snapshot(engine[n]))
    /\ UNCHANGED <<input, pos, buf, lines, hand, pc, engine, processed, segA, segB, segOut,
                   args_player, table>>

\* print_table(snapshot, quiet): the rows printed, one for every item of the
\* snapshot, whatever quiet is
print_table(snap, quiet) == [name \in DOMAIN snap |-> snap[name]]

\* lines 284-286: the loop is over and no hand was processed; main returns
NoHands ==
    /\ pc = "done"
    /\ \A n \in WindowSizes : engine[n].snapshots = <<>>
    /\ pc' = "returned"
    /\ UNCHANGED <<input, pos, buf, lines, hand, engine, processed, probe, segA, segB, segOut,
                   args_player, table>>

\* lines 288-290: the newest snapshot is printed; args.player is read nowhere
PrintTable ==
    /\ pc = "done"
    /\ \E n \in WindowSizes : \E quiet \in BOOLEAN :
          /\ engine[n].snapshots # <<>>
          /\ LET last_snap == engine[n].snapshots[Len(engine[n].snapshots)][2]
             IN  table' = print_table(last_snap, quiet)
    /\ pc' = "printed"
    /\ UNCHANGED <<input, pos, buf, lines, hand, engine, processed, probe, segA, segB, segOut,
                   args_player>>

Next ==
    \/ ReadLine
    \/ EndOfFile
    \/ Parse
    \/ ProcessHand
    \/ Discard
    \/ MakeSnapshot
    \/ NoHands
    \/ PrintTable

Spec == Init /\ [][Next]_vars

\* ------------------------------------------------- main run with --player

\* the values of --player: a player of the files and one who is in none
Focus == { <<"Alice">>, <<"Carol">> }

InitFocus ==
    /\ input \in Logs
    /\ pos = 0
    /\ buf = <<>>
    /\ lines = <<>>
    /\ hand = NoHand
    /\ pc = "read"
    /\ engine = [n \in WindowSizes |-> NewEngine(n)]
    /\ processed = <<>>
    /\ probe = <<>>
    /\ segA = <<>>
    /\ segB = <<>>
    /\ segOut = Idle
    /\ args_player \in Focus
    /\ table = EmptyDict

SpecFocus == InitFocus /\ [][Next]_vars

\* -------------------------------------------------------- the parser alone

\* lines as the segmenter hands them over (stripped)
GoodLines ==
    { HeaderLine("123"), HeaderLine("7") \o " Hold'em No Limit",
      SeatLine("1", "Alice", "100.00"), SeatLine("2", "Bob", "50"),
      "Alice: raises to 3", "Bob: calls 2 *** FLOP", "*** FLOP *** [2c 3d 4h]",
      CollectedLine("Alice", "4.50"), CollectedLine("Bob", "1"),
      TotalPotLine("4.50"), "" }

BadLines ==
    { "PokerStars Hand 127", "PokerStars Hand #x9:", SeatLine("1", "Alice", "1.2.3"),
      "Seat 3: Carol", TotalPotLine(".") }

LinePool == GoodLines \cup BadLines

BlocksOf(pool, maxLen) == UNION { [1..k -> pool] : k \in 1..maxLen }

\* parse_pokerstars_hand called on a block of up to MaxBlockLines lines
InitParse ==
    /\ lines \in BlocksOf(LinePool, MaxBlockLines)
    /\ pc = "yielded"
    /\ input = <<>>
    /\ pos = 0
    /\ buf = <<>>
    /\ hand = NoHand
    /\ engine = [n \in WindowSizes |-> NewEngine(n)]
    /\ processed = <<>>
    /\ probe = <<>>
    /\ segA = <<>>
    /\ segB = <<>>
    /\ segOut = Idle
    /\ args_player = None
    /\ table = EmptyDict

NextParse == Parse

SpecParse == InitParse /\ [][NextParse]_vars

\* ----------------------------------------------------- the segmenter alone

RawPool == { "PokerStars Hand #1:\n", "Seat 1: Alice (5 in chips)\n",
             "  PokerStars Hand #2:\n", "\n" }

LogsOf(pool, maxLen) == UNION { [1..k -> pool] : k \in 0..maxLen }

\* read_hands_from_file run on a log A, on a log B and on A followed by B
InitSeg ==
    /\ segA \in LogsOf(RawPool, MaxSegLen)
    /\ segB \in LogsOf(RawPool, MaxSegLen)
    /\ segOut = Idle
    /\ args_player = None
    /\ table = EmptyDict
    /\ pc = "segment"
    /\ input = <<>>
    /\ pos = 0
    /\ buf = <<>>
    /\ lines = <<>>
    /\ hand = NoHand
    /\ engine = [n \in WindowSizes |-> NewEngine(n)]
    /\ processed = <<>>
    /\ probe = <<>>

Segment ==
    /\ pc = "segment"
    /\ segOut' = [A |-> read_hands_from_file(segA),
                  B |-> read_hands_from_file(segB),
                  AB |-> read_hands_from_file(segA \o segB)]
    /\ pc' = "segmented"
    /\ UNCHANGED <<input, pos, buf, lines, hand, engine, processed, probe, segA, segB,
                   args_player, table>>

NextSeg == Segment

SpecSeg == InitSeg /\ [][NextSeg]_vars

\* ================================================================ claims

IdsOf(hs) == [i \in 1..Len(hs) |-> hs[i].hand_id]
HistoryIds(e) == [i \in 1..Len(e.snapshots) |-> e.snapshots[i][1]]
IsPrefix(a, b) == Len(a) <= Len(b) /\ SubSeq(b, 1, Len(a)) = a

\* C1: after k calls of process_hand the snapshot history has k entries, the i-th
\* with the id of the i-th processed hand (equal ids included); a call appends
\* exactly one entry and leaves the entries before it as they were, and no other
\* step touches the history.
C1_AppendOnlyHistory ==
    /\ [](\A n \in WindowSizes : HistoryIds(engine[n]) = IdsOf(processed))
    /\ [][\A n \in WindowSizes :
            /\ IsPrefix(engine[n].snapshots, engine'[n].snapshots)
            /\ Len(engine'[n].snapshots) =
                 Len(engine[n].snapshots) + (IF processed' # processed THEN 1 ELSE 0)]_vars

\* three hands processed, the first and the third under the same id, and the
\* entry of the first differs from the entry of the third
C1_Witness ==
    /\ pc = "processed"
    /\ Len(processed) = 3
    /\ processed[1].hand_id = processed[3].hand_id
    /\ \A n \in WindowSizes :
          /\ Len(engine[n].snapshots) = 3
          /\ engine[n].snapshots[1] # engine[n].snapshots[3]

\* a block the discard policy covers: no id on its first line, or no seat line
\* that gives a player
Dropped(block) ==
    /\ block # <<>>
    /\ \/ MatchHandId(block[1]) = None
       \/ \A i \in 1..Len(block) : MatchSeat(block[i]) = None

\* C2: a block without a recognizable id on its first line, or without any
\* player, gives no Hand, and from its yield to the end of the loop body the
\* engines (history, players and their counters, buffers) stay as they were.
C2_DiscardLeavesEngine ==
    /\ []((pc = "parsed" /\ Dropped(lines)) => hand = NoHand)
    /\ [][(pc \in {"yielded", "parsed"} /\ Dropped(lines))
            => (engine' = engine /\ processed' = processed)]_vars

\* Scenario B after hands were processed: a block with an id and no seat line
\* went through the loop body
C2_Witness ==
    /\ pc = "read"
    /\ lines # <<>>
    /\ MatchHandId(lines[1]) # None
    /\ \A i \in 1..Len(lines) : MatchSeat(lines[i]) = None
    /\ hand = NoHand
    /\ Len(processed) >= 1
    /\ \A n \in WindowSizes : Len(engine[n].snapshots) = Len(processed)

Min(a, b) == IF a <= b THEN a ELSE b

LastOf(q, m) == SubSeq(q, Len(q) - m + 1, Len(q))

\* C4: the buffer of an engine of window size N holds at most N hands, and after
\* k processed hands exactly the last min(N, k) of them, in processing order.
C4_BoundedBuffer ==
    \A n \in WindowSizes :
        /\ Len(engine[n].hands) <= n
        /\ engine[n].hands = LastOf(processed, Min(n, Len(processed)))

\* a full buffer of two hands took a third hand: the oldest is gone
C4_Witness ==
    /\ pc = "processed"
    /\ Len(processed) >= 3
    /\ \E n \in WindowSizes :
          /\ n >= 2
          /\ Len(engine[n].hands) = n
          /\ Len(processed) > n
          /\ engine[n].hands[1] # processed[1]
          /\ engine[n].hands[1] # engine[n].hands[n]

PlayersUpTo(hs, i) == UNION { DOMAIN hs[j].players : j \in 1..i }

\* C5: the i-th snapshot has as keys exactly the players of the players maps of
\* the first i processed hands, so the key sets never shrink.
C5_SnapshotKeys ==
    \A n \in WindowSizes :
        \A i \in 1..Len(engine[n].snapshots) :
            DOMAIN engine[n].snapshots[i][2] = PlayersUpTo(processed, i)

\* the last hand lacks a player who is in its snapshot, and brought a new one
C5_Witness ==
    /\ pc = "processed"
    /\ Len(processed) >= 2
    /\ \A n \in WindowSizes :
          LET k == Len(engine[n].snapshots)
          IN  /\ k = Len(processed)
              /\ \E p \in DOMAIN engine[n].snapshots[k][2] : p \notin DOMAIN hand.players
              /\ \E p \in DOMAIN hand.players : p \notin DOMAIN engine[n].snapshots[k - 1][2]

HandsWith(p) == { j \in 1..Len(processed) : p \in DOMAIN processed[j].players }

\* C6: process_hand(hand) leaves every counter of a known player who is not in
\* hand.players as it was, whatever the hand's actions and winner name, and
\* adds one to hands of every player in hand.players (a new player starts at
\* one); so hands of a player is the number of processed hands that hold the
\* player.
C6_AbsentPlayersUntouched ==
    /\ [](\A n \in WindowSizes : \A p \in DOMAIN engine[n].players :
            engine[n].players[p].hands = Cardinality(HandsWith(p)))
    /\ [][processed' # processed =>
            \A n \in WindowSizes :
                /\ \A p \in DOMAIN engine[n].players :
                      IF p \in DOMAIN hand.players
                      THEN engine'[n].players[p].hands = engine[n].players[p].hands + 1
                      ELSE engine'[n].players[p] = engine[n].players[p]
                /\ \A p \in DOMAIN hand.players \ DOMAIN engine[n].players :
                      engine'[n].players[p].hands = 1]_vars

\* the hand just processed names, in an action and as its winner, a known
\* player who has no seat in it, next to a seated player known before
C6_Witness ==
    /\ pc = "processed"
    /\ Len(processed) >= 2
    /\ \A n \in WindowSizes :
          /\ \E p \in DOMAIN engine[n].players \ DOMAIN hand.players :
                /\ hand.winner = <<p>>
                /\ \E i \in 1..Len(hand.actions) : hand.actions[i][2] = p
                /\ engine[n].players[p].hands >= 1
          /\ \E p \in DOMAIN hand.players : engine[n].players[p].hands >= 2

Abs(x) == IF x >= 0 THEN x ELSE 0 - x

\* the newest entry of an engine's history and the counters it was computed from
NewestAF(e, p) == e.snapshots[Len(e.snapshots)][2][p].AF
Aggressive(ps) == ps.af_acts.bet + ps.af_acts.raise

\* C8 as stated: with no call counted the AF field is the placeholder, with
\* calls counted it is the ratio (bets + raises) / calls.
C8_AFExactRatio ==
    \A n \in WindowSizes : \A p \in DOMAIN engine[n].players :
        LET ps == engine[n].players[p]
            af == NewestAF(engine[n], p)
        IN  IF ps.af_acts.call = 0 THEN af = <<"-">>
            ELSE /\ Len(af) = 2
                 /\ af[1] = "ratio"
                 /\ af[2] * ps.af_acts.call = 100 * Aggressive(ps)

\* C8 amended: with no call counted the AF field is the placeholder, with calls
\* counted it is the ratio (bets + raises) / calls rounded to two decimals.
C8_AFPlaceholder ==
    \A n \in WindowSizes : \A p \in DOMAIN engine[n].players :
        LET ps == engine[n].players[p]
            af == NewestAF(engine[n], p)
        IN  IF ps.af_acts.call = 0 THEN af = <<"-">>
            ELSE /\ Len(af) = 2
                 /\ af[1] = "ratio"
                 /\ 2 * Abs(100 * Aggressive(ps) - af[2] * ps.af_acts.call) <= ps.af_acts.call

\* one player with the placeholder next to one with a ratio that is no whole
\* number of hundredths
C8_Witness ==
    /\ pc = "processed"
    /\ \A n \in WindowSizes :
          /\ \E p \in DOMAIN engine[n].players :
                /\ engine[n].players[p].af_acts.call = 0
                /\ NewestAF(engine[n], p) = <<"-">>
          /\ \E p \in DOMAIN engine[n].players :
                LET ps == engine[n].players[p]
                IN  /\ ps.af_acts.call > 0
                    /\ (100 * Aggressive(ps)) % ps.af_acts.call # 0
                    /\ Len(NewestAF(engine[n], p)) = 2

HeaderIds == {"123", "7"}
GoodSeatLines == { SeatLine("1", "Alice", "100.00"), SeatLine("2", "Bob", "50") }

\* a block of well-formed lines whose first line is the header of hand id and
\* which holds a seat line
ValidBlock(block, id) ==
    /\ block # <<>>
    /\ \A i \in 1..Len(block) : block[i] \in GoodLines
    /\ StartsWith(block[1], HeaderLine(id))
    /\ \E i \in 1..Len(block) : block[i] \in GoodSeatLines

\* C9: parsing a valid block with header id X and at least one seat line gives
\* a Hand (no discard, no error) whose id is X.
C9_ValidBlockParses ==
    \A id \in HeaderIds :
        (pc \in {"parsed", "crashed"} /\ ValidBlock(lines, id)) =>
            (pc = "parsed" /\ hand.kind = "Hand" /\ hand.hand_id = id)

\* a header with text after the colon, a seat line and a pot line were parsed
C9_Witness ==
    /\ pc = "parsed"
    /\ ValidBlock(lines, "7")
    /\ Len(lines[1]) > Len(HeaderLine("7"))
    /\ Len(lines) = 3
    /\ hand.kind = "Hand"
    /\ hand.hand_id = "7"
    /\ hand.potsize > 0

\* C10 as stated: the blocks of A followed by B are the blocks of A followed by
\* the blocks of B, for any two logs.
C10_ConcatAnyLogs ==
    pc = "segmented" => segOut.AB = segOut.A \o segOut.B

\* C10 amended: when A is empty, B is empty or B starts with a marker line, the
\* blocks of A followed by B are the blocks of A followed by the blocks of B;
\* otherwise the last block of A and the first block of B come out as one block.
C10_ConcatAtMarker ==
    pc = "segmented" =>
        IF segA = <<>> \/ segB = <<>> \/ StartsWith(segB[1], HandMarker)
        THEN segOut.AB = segOut.A \o segOut.B
        ELSE segOut.AB =
                SubSeq(segOut.A, 1, Len(segOut.A) - 1)
                \o << segOut.A[Len(segOut.A)] \o segOut.B[1] >>
                \o Tail(segOut.B)

\* two logs of several blocks each, the second starting with a marker
C10_Witness ==
    /\ pc = "segmented"
    /\ Len(segOut.A) >= 2
    /\ Len(segOut.B) >= 2
    /\ StartsWith(segB[1], HandMarker)
    /\ Len(segOut.AB) = Len(segOut.A) + Len(segOut.B)

\* ----- C11 -----
\* the lines of a block that contain both "collected" and "from pot"
CollectedIdx(block) ==
    {i \in 1..Len(block) : Contains(block[i], "collected") /\ Contains(block[i], "from pot")}

SetMin(S) == CHOOSE x \in S : \A y \in S : x <= y

SetMax(S) == CHOOSE x \in S : \A y \in S : x >= y

\* the text before " collected" on line i of the block, trimmed
NameBeforeCollected(block, i) == Strip(SubSeq(block[i], 1, Find(block[i], " collected") - 1))

\* the block just parsed into a hand has several collected lines
SplitPotParsed ==
    /\ pc = "parsed"
    /\ hand.kind = "Hand"
    /\ Cardinality(CollectedIdx(lines)) >= 2

\* C11 as stated: with several lines containing "collected" and "from pot", the
\* winner of the parsed hand is the name before "collected" on the first of them
C11_FirstCollectedWins ==
    SplitPotParsed =>
        hand.winner = <<NameBeforeCollected(lines, SetMin(CollectedIdx(lines)))>>

\* C11 amended: with several lines containing "collected" and "from pot", every
\* such line overwrites the winner, so the winner of the parsed hand is the name
\* before "collected" on the last of them
C11_LastCollectedWins ==
    SplitPotParsed =>
        hand.winner = <<NameBeforeCollected(lines, SetMax(CollectedIdx(lines)))>>

C11_Witness ==
    /\ SplitPotParsed
    /\ NameBeforeCollected(lines, SetMin(CollectedIdx(lines))) = "Alice"
    /\ NameBeforeCollected(lines, SetMax(CollectedIdx(lines))) = "Bob"
    /\ hand.winner = <<"Bob">>

\* ----- C12 -----
\* the processed hands that hold player p and name p as the winner
HandsWonBy(p) ==
    { j \in HandsWith(p) : processed[j].winner = <<p>> }

NewestRow(e, p) == e.snapshots[Len(e.snapshots)][2][p]

\* C12: showdown and won_showdown of a player both equal the number of processed
\* hands that hold the player and name the player as the winner; a hand that
\* holds the player and has no winner or another winner leaves showdown,
\* won_showdown and bb_won as they were and adds one to hands, and the W$SD% and
\* VPIP% of the snapshot it appends are computed over the larger hands count.
C12_ShowdownOnlyForWinner ==
    /\ [](\A n \in WindowSizes : \A p \in DOMAIN engine[n].players :
            /\ engine[n].players[p].showdown = Cardinality(HandsWonBy(p))
            /\ engine[n].players[p].won_showdown = Cardinality(HandsWonBy(p)))
    /\ [][processed' # processed =>
            \A n \in WindowSizes : \A p \in DOMAIN engine[n].players :
                (p \in DOMAIN hand.players /\ hand.winner # <<p>>) =>
                    LET old == engine[n].players[p]
                        new == engine'[n].players[p]
                        row == NewestRow(engine'[n], p)
                    IN  /\ new.showdown = old.showdown
                        /\ new.won_showdown = old.won_showdown
                        /\ new.bb_won = old.bb_won
                        /\ new.hands = old.hands + 1
                        /\ row.hands = old.hands + 1
                        /\ row.WSD = RoundDiv(1000 * old.won_showdown, old.hands + 1)
                        /\ row.VPIP = RoundDiv(1000 * new.vpip, old.hands + 1)]_vars

\* Scenario C: Alice won her first hand and sits in a second hand nobody wins;
\* her W$SD% falls from 100.0 to 50.0 and her VPIP% from 100.0 to 50.0
C12_Witness ==
    /\ pc = "processed"
    /\ Len(processed) = 2
    /\ processed[1].winner = <<"Alice">>
    /\ "Alice" \in DOMAIN hand.players
    /\ hand.winner = None
    /\ \A n \in WindowSizes :
          /\ engine[n].players["Alice"].won_showdown = 1
          /\ engine[n].players["Alice"].showdown = 1
          /\ engine[n].players["Alice"].hands = 2
          /\ engine[n].snapshots[1][2]["Alice"].WSD = 1000
          /\ engine[n].snapshots[1][2]["Alice"].VPIP = 1000
          /\ NewestRow(engine[n], "Alice").WSD = 500
          /\ NewestRow(engine[n], "Alice").VPIP = 500

\* ----- C13 -----
\* the block of Scenario A
ScenarioA ==
    << "PokerStars Hand #123:", "Seat 1: Alice (100.00 in chips)", "Alice: raises to 3",
       "Alice collected 4.50 from pot", "Total pot 4.50" >>

\* the file that holds the block of Scenario A and nothing else
ScenarioAFile == FileLines(ScenarioA)

RECURSIVE SumPots(_)
SumPots(J) ==
    IF J = {} THEN 0
    ELSE LET j == CHOOSE x \in J : TRUE
         IN  processed[j].potsize \div BbValue + SumPots(J \ {j})

\* the history of a file that holds the block of Scenario A and nothing else, at
\* a big blind of 1.0: one entry, id 123, Alice with hands 1, VPIP% 100.0,
\* PFR% 100.0, W$SD% 100.0 and BB/100 450.0
ScenarioAHistory ==
    (input = ScenarioAFile /\ processed # <<>>) =>
        \A n \in WindowSizes :
            /\ Len(engine[n].snapshots) = 1
            /\ engine[n].snapshots[1][1] = "123"
            /\ DOMAIN engine[n].snapshots[1][2] = {"Alice"}
            /\ LET row == engine[n].snapshots[1][2]["Alice"]
               IN  /\ row.hands = 1
                   /\ row.VPIP = 1000
                   /\ row.PFR = 1000
                   /\ row.WSD = 1000
                   /\ row.BB100 = 45000

\* bb_won is the sum of potsize / bb over the hands won
BbWonIsSumOfPots ==
    \A p \in UNION { DOMAIN engine[n].players : n \in WindowSizes } :
        LET pots == SumPots(HandsWonBy(p))
        IN  \A n \in WindowSizes :
                p \in DOMAIN engine[n].players => engine[n].players[p].bb_won = pots

\* C13 as stated: Scenario A gives the one-entry history above, and in general
\* VPIP%, PFR% and W$SD% are 100 * counter / hands and BB/100 is
\* 100 * bb_won / hands, bb_won the sum of potsize / bb over the hands won.
C13_ExactDerived ==
    /\ ScenarioAHistory
    /\ BbWonIsSumOfPots
    /\ \A n \in WindowSizes : \A p \in DOMAIN engine[n].players :
          LET ps == engine[n].players[p]
              row == NewestRow(engine[n], p)
          IN  /\ row.VPIP * ps.hands = 1000 * ps.vpip
              /\ row.PFR * ps.hands = 1000 * ps.pfr
              /\ row.WSD * ps.hands = 1000 * ps.won_showdown
              /\ row.BB100 * ps.hands = 100 * ps.bb_won

\* C13 amended: Scenario A gives the one-entry history above, and in general
\* VPIP%, PFR% and W$SD% are 100 * counter / hands rounded to one decimal and
\* BB/100 is 100 * bb_won / hands rounded to two decimals, bb_won the sum of
\* potsize / bb over the hands won.
C13_RoundedDerived ==
    /\ ScenarioAHistory
    /\ BbWonIsSumOfPots
    /\ \A n \in WindowSizes : \A p \in DOMAIN engine[n].players :
          LET ps == engine[n].players[p]
              row == NewestRow(engine[n], p)
          IN  /\ 2 * Abs(1000 * ps.vpip - row.VPIP * ps.hands) <= ps.hands
              /\ 2 * Abs(1000 * ps.pfr - row.PFR * ps.hands) <= ps.hands
              /\ 2 * Abs(1000 * ps.won_showdown - row.WSD * ps.hands) <= ps.hands
              /\ 2 * Abs(100 * ps.bb_won - row.BB100 * ps.hands) <= ps.hands

\* Scenario A has been read to its end and its hand processed
C13_Witness ==
    /\ input = ScenarioAFile
    /\ pc = "done"
    /\ Len(processed) = 1
    /\ \A n \in WindowSizes :
          /\ HistoryIds(engine[n]) = <<"123">>
          /\ engine[n].players["Alice"].bb_won = 450
          /\ NewestRow(engine[n], "Alice").BB100 = 45000

\* ----- C14 -----
\* C14: with a player focus configured (--player), the table main prints holds
\* rows of that player only, while every player of the files is accumulated in
\* the history.
C14_TableRestrictedToFocus ==
    (pc = "printed" /\ args_player # None) =>
        /\ DOMAIN table \subseteq {args_player[1]}
        /\ \A n \in WindowSizes :
              DOMAIN engine[n].players = PlayersUpTo(processed, Len(processed))

\* ----- C15 -----
\* the actions of player p in hand h that are recorded PREFLOP and are a call,
\* a raise or a bet, and those that are a raise
VpipActs(h, p) ==
    Cardinality({ i \in 1..Len(h.actions) :
        /\ h.actions[i][2] = p
        /\ h.actions[i][1] = "PREFLOP"
        /\ \/ Contains(h.actions[i][3], "calls")
           \/ Contains(h.actions[i][3], "raises")
           \/ Contains(h.actions[i][3], "bets") })

PfrActs(h, p) ==
    Cardinality({ i \in 1..Len(h.actions) :
        /\ h.actions[i][2] = p
        /\ h.actions[i][1] = "PREFLOP"
        /\ Contains(h.actions[i][3], "raises") })

RECURSIVE SumSeq(_)
SumSeq(q) == IF q = <<>> THEN 0 ELSE Head(q) + SumSeq(Tail(q))

\* vpip and pfr count actions, not hands: one per qualifying action of the
\* player in every processed hand that holds the player
CountedPerAction ==
    \A p \in UNION { DOMAIN engine[n].players : n \in WindowSizes } :
        LET vpipActs == SumSeq([j \in 1..Len(processed) |->
                          IF j \in HandsWith(p) THEN VpipActs(processed[j], p) ELSE 0])
            pfrActs == SumSeq([j \in 1..Len(processed) |->
                          IF j \in HandsWith(p) THEN PfrActs(processed[j], p) ELSE 0])
        IN  \A n \in WindowSizes :
                p \in DOMAIN engine[n].players =>
                    /\ engine[n].players[p].vpip = vpipActs
                    /\ engine[n].players[p].pfr = pfrActs

\* C15 as stated: vpip and pfr are counted once per qualifying action, so after
\* a hand with two or more such actions of a player vpip exceeds hands and
\* VPIP% exceeds 100.
C15_VpipExceedsAfterAnyHand ==
    /\ CountedPerAction
    /\ pc = "processed" =>
          \A n \in WindowSizes : \A p \in DOMAIN hand.players :
              VpipActs(hand, p) >= 2 =>
                  /\ engine[n].players[p].vpip > engine[n].players[p].hands
                  /\ NewestRow(engine[n], p).VPIP > 1000

\* C15 amended: vpip and pfr are counted once per qualifying action, so after a
\* player's first hand, when it has two or more such actions, vpip exceeds
\* hands and VPIP% exceeds 100.
C15_VpipExceedsAfterFirstHand ==
    /\ CountedPerAction
    /\ pc = "processed" =>
          \A n \in WindowSizes : \A p \in DOMAIN hand.players :
              (VpipActs(hand, p) >= 2 /\ engine[n].players[p].hands = 1) =>
                  /\ engine[n].players[p].vpip > engine[n].players[p].hands
                  /\ NewestRow(engine[n], p).VPIP > 1000

\* Bob's first hand holds two preflop raises: vpip 2 and pfr 2 over one hand
C15_Witness ==
    /\ pc = "processed"
    /\ VpipActs(hand, "Bob") = 2
    /\ PfrActs(hand, "Bob") = 2
    /\ \A n \in WindowSizes :
          /\ engine[n].players["Bob"].hands = 1
          /\ engine[n].players["Bob"].vpip = 2
          /\ engine[n].players["Bob"].pfr = 2
          /\ NewestRow(engine[n], "Bob").VPIP = 2000
          /\ NewestRow(engine[n], "Bob").PFR = 2000

\* ----- C16 -----
\* the actions of player p in hand h whose text holds the verb, on any street
\* or on the streets other than PREFLOP only
VerbActs(h, p, verb, anyStreet) ==
    Cardinality({ i \in 1..Len(h.actions) :
        /\ h.actions[i][2] = p
        /\ Contains(h.actions[i][3], verb)
        /\ anyStreet \/ h.actions[i][1] # "PREFLOP" })

AggressionOver(p, verb, anyStreet) ==
    SumSeq([j \in 1..Len(processed) |->
              IF j \in HandsWith(p) THEN VerbActs(processed[j], p, verb, anyStreet) ELSE 0])

\* C16: the call counter of the aggression counters counts the calls on streets
\* other than PREFLOP, the raise counter the raises on streets other than
\* PREFLOP and the bet counter the bets on any street; folds, checks, preflop
\* calls and preflop raises count in none of the three.
C16_AggressionCounters ==
    \A p \in UNION { DOMAIN engine[n].players : n \in WindowSizes } :
        LET counted == [call |-> AggressionOver(p, "calls", FALSE),
                        raise |-> AggressionOver(p, "raises", FALSE),
                        bet |-> AggressionOver(p, "bets", TRUE)]
        IN  \A n \in WindowSizes :
                p \in DOMAIN engine[n].players =>
                    /\ engine[n].players[p].af_acts.call = counted.call
                    /\ engine[n].players[p].af_acts.raise = counted.raise
                    /\ engine[n].players[p].af_acts.bet = counted.bet

\* Bob has folded, called and raised before the flop and has bet before the
\* flop, and called and raised on it: one bet, one raise and one call counted
C16_Witness ==
    /\ pc = "processed"
    /\ \E j \in HandsWith("Bob") : \E i \in 1..Len(processed[j].actions) :
          processed[j].actions[i] = <<"PREFLOP", "Bob", "folds">>
    /\ \E j \in HandsWith("Bob") : \E i \in 1..Len(processed[j].actions) :
          /\ processed[j].actions[i][1] = "PREFLOP"
          /\ processed[j].actions[i][2] = "Bob"
          /\ Contains(processed[j].actions[i][3], "raises")
    /\ \E j \in HandsWith("Bob") : \E i \in 1..Len(processed[j].actions) :
          /\ processed[j].actions[i][1] = "PREFLOP"
          /\ processed[j].actions[i][2] = "Bob"
          /\ Contains(processed[j].actions[i][3], "bets")
    /\ \A n \in WindowSizes :
          engine[n].players["Bob"].af_acts = [bet |-> 1, raise |-> 1, call |-> 1]

\* ----- C17 -----
\* the places of the action lines of a block, in the order of the log
ActionLineIdx(block) ==
    LET IsAction(i) == IsActionLine(block[i])
    IN  SelectSeq([i \in 1..Len(block) |-> i], IsAction)

\* C17: the street of a recorded action depends on its own line only: it is the
\* later street exactly when the flop header literal stands on that line, so an
\* action line that follows a street header on a line of its own is recorded
\* PREFLOP; the actions are recorded in the order of the log.
C17_StreetLineLocal ==
    (pc = "parsed" /\ hand.kind = "Hand") =>
        LET idx == ActionLineIdx(lines)
        IN  /\ Len(hand.actions) = Len(idx)
            /\ \A k \in 1..Len(idx) :
                  LET line == lines[idx[k]]
                      colon == Find(line, ":")
                  IN  /\ hand.actions[k][1] =
                            (IF Contains(line, "*** FLOP") THEN "FLOP" ELSE "PREFLOP")
                      /\ hand.actions[k][1] \in {"PREFLOP", "FLOP"}
                      /\ hand.actions[k][2] = Strip(SubSeq(line, 1, colon - 1))
                      /\ hand.actions[k][3] = Strip(SubSeq(line, colon + 1, Len(line)))

\* a block with a flop header on a line of its own, an action line after it
\* that is recorded PREFLOP and a later action line that carries the literal and
\* is recorded FLOP
C17_Witness ==
    /\ pc = "parsed"
    /\ hand.kind = "Hand"
    /\ LET idx == ActionLineIdx(lines)
       IN  \E h \in 1..Len(lines) : \E k \in 1..Len(idx) : \E m \in 1..Len(idx) :
              /\ Contains(lines[h], "*** FLOP")
              /\ ~IsActionLine(lines[h])
              /\ h < idx[k]
              /\ k < m
              /\ hand.actions[k][1] = "PREFLOP"
              /\ hand.actions[m][1] = "FLOP"

\* ----- C18 -----
\* a raw line without its line terminator
LineOf(raw) ==
    IF Len(raw) > 0 /\ Char(raw, Len(raw)) = "\n" THEN SubSeq(raw, 1, Len(raw) - 1) ELSE raw

\* the places, in the concatenation of the blocks, where a block starts
BlockStarts(blocks) ==
    { 1 + SumSeq([m \in 1..(b - 1) |-> Len(blocks[m])]) : b \in 1..Len(blocks) }

\* the claim as stated, of the blocks yielded for the raw lines raws
SegmentedAsStated(raws, blocks) ==
    /\ \A b \in 1..Len(blocks) : blocks[b] # <<>>
    /\ \A b \in 1..Len(blocks) : \A j \in 2..Len(blocks[b]) :
          ~StartsWith(blocks[b][j], HandMarker)
    /\ \A b \in 2..Len(blocks) : StartsWith(blocks[b][1], HandMarker)
    /\ Flatten(blocks) = [i \in 1..Len(raws) |-> LineOf(raws[i])]

\* the same with the marker test made on the line as read and the lines of the
\* blocks trimmed
SegmentedAsRead(raws, blocks) ==
    /\ \A b \in 1..Len(blocks) : blocks[b] # <<>>
    /\ Flatten(blocks) = [i \in 1..Len(raws) |-> Strip(raws[i])]
    /\ BlockStarts(blocks) =
          { i \in 1..Len(raws) : i = 1 \/ StartsWith(raws[i], HandMarker) }

\* C18 as stated: read_hands_from_file yields no empty block, a line starting
\* with the header prefix is in a block only as its first line, every block
\* after the first starts with such a line, the block left at the end of the
\* input is yielded, and the blocks one after the other are the input lines.
C18_BlocksAreInputLines ==
    pc = "segmented" =>
        /\ SegmentedAsStated(segA, segOut.A)
        /\ SegmentedAsStated(segB, segOut.B)
        /\ SegmentedAsStated(segA \o segB, segOut.AB)

\* C18 amended: read_hands_from_file yields no empty block; a block starts at
\* the first input line and at every input line that starts with the header
\* prefix as read, before trimming, and nowhere else; the block left at the end
\* of the input is yielded; and the blocks one after the other are the input
\* lines, each trimmed of surrounding whitespace, in order.
C18_BlocksAreTrimmedLines ==
    pc = "segmented" =>
        /\ SegmentedAsRead(segA, segOut.A)
        /\ SegmentedAsRead(segB, segOut.B)
        /\ SegmentedAsRead(segA \o segB, segOut.AB)

\* a run of three blocks or more: lines before the first header, and an
\* indented header that stays inside a block and starts with the prefix there
C18_Witness ==
    /\ pc = "segmented"
    /\ Len(segOut.AB) >= 3
    /\ ~StartsWith(segOut.AB[1][1], HandMarker)
    /\ \E b \in 1..Len(segOut.AB) : \E j \in 2..Len(segOut.AB[b]) :
          StartsWith(segOut.AB[b][j], HandMarker)
    /\ Len(segOut.AB[Len(segOut.AB)]) >= 2

\* ----- C19 -----
\* C19: in every engine state every known player has _3bet equal to pfr, pfr at
\* most vpip, showdown equal to won_showdown, won_showdown at most hands, so
\* that W$SD% lies between 0 and 100, and hands at least 1.
C19_CounterRelations ==
    \A n \in WindowSizes : \A p \in DOMAIN engine[n].players :
        LET ps == engine[n].players[p]
        IN  /\ ps._3bet = ps.pfr
            /\ ps.pfr <= ps.vpip
            /\ ps.showdown = ps.won_showdown
            /\ ps.won_showdown <= ps.hands
            /\ ps.hands >= 1
            /\ NewestRow(engine[n], p).WSD \in 0..1000
            /\ NewestRow(engine[n], p).hands >= 1

\* a player of two hands who raised, put money in more often than that, and won
\* one of the two hands
C19_Witness ==
    /\ pc = "processed"
    /\ \A n \in WindowSizes : \E p \in DOMAIN engine[n].players :
          LET ps == engine[n].players[p]
          IN  /\ ps.hands = 2
              /\ ps.pfr >= 1
              /\ ps._3bet = ps.pfr
              /\ ps.vpip > ps.pfr
              /\ ps.won_showdown = 1
              /\ NewestRow(engine[n], p).WSD = 500

\* ----- C20 -----
\* no action line of the file carries the flop header literal
HeadersOnOwnLines ==
    \A i \in 1..Len(input) :
        ~(Contains(input[i], "*** FLOP") /\ IsActionLine(Strip(input[i])))

\* every recorded action is PREFLOP, no call and no raise is counted, every AF
\* field is the placeholder and AFq% is 100 with a bet counted and 0 without
OnlyPreflopCounted ==
    /\ \A j \in 1..Len(processed) : \A i \in 1..Len(processed[j].actions) :
          processed[j].actions[i][1] = "PREFLOP"
    /\ \A n \in WindowSizes :
          /\ \A p \in DOMAIN engine[n].players :
                /\ engine[n].players[p].af_acts.call = 0
                /\ engine[n].players[p].af_acts.raise = 0
                /\ NewestRow(engine[n], p).AFq =
                      (IF engine[n].players[p].af_acts.bet > 0 THEN 1000 ELSE 0)
          /\ \A i \in 1..Len(engine[n].snapshots) :
                \A p \in DOMAIN engine[n].snapshots[i][2] :
                    /\ engine[n].snapshots[i][2][p].AF = <<"-">>
                    /\ engine[n].snapshots[i][2][p].AFq \in {0, 1000}

\* C20: when no action line of the file carries the flop header literal, every
\* recorded action is PREFLOP, the call and raise counters of the aggression
\* counters of every player are 0, the AF field of every snapshot entry is the
\* placeholder, and AFq% is 100 for a player with a bet counted and 0 for a
\* player without.
C20_AllPreflop == OnlyPreflopCounted \/ ~HeadersOnOwnLines

\* a file with a flop header on a line of its own: Bob called before it and bet
\* after it, Alice checked, and Bob has raised in another hand
C20_Witness ==
    /\ HeadersOnOwnLines
    /\ pc = "processed"
    /\ \E i \in 1..Len(input) : Contains(input[i], "*** FLOP")
    /\ \E j \in 1..Len(processed) : \E i \in 1..Len(processed[j].actions) :
          /\ processed[j].actions[i][2] = "Bob"
          /\ Contains(processed[j].actions[i][3], "calls")
    /\ \A n \in WindowSizes :
          /\ engine[n].players["Bob"].af_acts.bet = 1
          /\ engine[n].players["Bob"].pfr >= 1
          /\ NewestRow(engine[n], "Bob").AFq = 1000
          /\ NewestRow(engine[n], "Alice").AFq = 0

====
